---- MODULE Spec2Model ----
(***************************************************************************)
(* Attendance backend (src/src/app.ts, schema in src/unnamed/part_001).    *)
(*                                                                         *)
(* Three express handlers run over one shared store:                        *)
(*   POST /register, POST /login, GET /export-attendance.                  *)
(* Every handler is an async function: it runs synchronously up to an      *)
(* `await`, and other requests may run between an `await` and its          *)
(* continuation.  Each request slot therefore has a program counter that   *)
(* names the store call it is waiting for; the action taken at that pc     *)
(* executes the store call and the synchronous code that follows it.       *)
(* bcrypt.hash / bcrypt.compare are pure, so their awaits are merged with  *)
(* the continuation that uses the result, except where the continuation    *)
(* reads the clock.                                                        *)
(***************************************************************************)
EXTENDS Integers, Sequences, FiniteSets, TLC

VARIABLES users, attendance, now, pc, kind, body, local, resp

vars == <<users, attendance, now, pc, kind, body, local, resp>>

----------------------------------------------------------------------------
(* Bounds of the model *)

\* last instant of the clock
MaxTime == 2
\* instants per calendar day (the resolution of the clock)
TicksPerDay == 2
\* logins are sent only while fewer than this many are recorded or in flight
MaxRecords == 2


\* the request slots: a request is in flight, or answered and not yet
\* collected, in one of them.  Two slots: every property below speaks of one
\* request or of a pair of requests.
Slots == {1, 2}

----------------------------------------------------------------------------
(* Values *)

\* a missing / empty JSON field or query parameter (falsy in JavaScript)
Missing == ""

Ann == [name |-> "Ann", email |-> "a@x.com", phone |-> "555", department |-> "Eng", pin |-> "1234"]
Bob == [name |-> "Bob", email |-> "b@x.com", phone |-> "556", department |-> "Ops", pin |-> "0000"]
\* a second person who tries to take Ann's email
Amy == [name |-> "Amy", email |-> "a@x.com", phone |-> "557", department |-> "Ops", pin |-> "0000"]

RegisterFields == {"name", "email", "phone", "department", "pin"}

\* the bodies POST /register is tried with: three complete ones, and Ann's
\* with each one of the five fields left out
RegisterBodies ==
    {Ann, Bob, Amy} \cup {[Ann EXCEPT ![f] = Missing] : f \in RegisterFields}

\* the bodies POST /login is tried with
LoginBodies ==
    {[email |-> "a@x.com", pin |-> "1234"], [email |-> "a@x.com", pin |-> "0000"],
     [email |-> "b@x.com", pin |-> "0000"],
     [email |-> Missing, pin |-> "1234"], [email |-> "a@x.com", pin |-> Missing]}

\* the values of ?format= ; Missing is the omitted parameter
Formats == {"csv", "pdf", "xml", Missing}

NoBody == [none |-> TRUE]

\* `null` as returned by findUnique / findFirst
NoUser == [id |-> 0, name |-> "", email |-> "", phone |-> "", department |-> "", pin |-> <<>>]
NoAttendance == [id |-> 0, userId |-> 0, date |-> 0]

NoFile == [type |-> "", name |-> "", lines |-> <<>>]
NoResp == [status |-> 0, message |-> "", user |-> <<>>, file |-> NoFile]
NoLocal == [user |-> NoUser, hashedPin |-> <<>>, startOfDay |-> 0]

----------------------------------------------------------------------------
(* Response messages *)

MsgFieldsRequired == "Please fill in all required fields to continue."
MsgEmailTaken == "This email is already registered. Try logging in."
MsgRegistered(name) == "Welcome aboard, " \o name \o "! Your account has been created successfully."
MsgRegisterFailed == "Oops! Something went wrong on our side. Please try again later."
MsgLoginRequired == "Both email and PIN are required to log in."
MsgNoAccount == "We couldn't find an account with that email."
MsgBadPin == "Incorrect PIN. Please try again."
MsgAlreadyMarked == "You've already marked your attendance today."
MsgMarked == "Attendance successfully marked. Have a great day!"
MsgNoData == "No attendance has been recorded for today yet."
MsgBadFormat == "Invalid export format. Please use ?format=csv or ?format=pdf"

Json(status, message) == [NoResp EXCEPT !.status = status, !.message = message]

----------------------------------------------------------------------------
(* Pure helpers *)

\* bcrypt.hash(pin, 10): a one-way digest; the stored value is not the PIN
BcryptHash(pin) == <<"$2a$", 10, pin>>

\* variant: the promise of bcrypt.compare is used without await, and a
\* promise is truthy
BcryptCompareNotAwaited(pin, hash) == TRUE

\* bcrypt.compare(pin, hash)
BcryptCompare(pin, hash) == hash = BcryptHash(pin)

\* new Date(today.setHours(0, 0, 0, 0)): the instant truncated to midnight
StartOfDay(t) == (t \div TicksPerDay) * TicksPerDay

\* a.date.toISOString().split("T")[0]
IsoDate(t) == "D" \o ToString(t \div TicksPerDay)

\* new Date(a.date).toLocaleTimeString("en-US", {...hour12: true})
LocaleTime(t) == "T" \o ToString(t % TicksPerDay)

\* prisma.user.findUnique({ where: { email } })
FindUserByEmail(email) ==
    IF \E i \in DOMAIN users : users[i].email = email
    THEN users[CHOOSE i \in DOMAIN users : users[i].email = email]
    ELSE NoUser

\* the row the foreign key Attendance.userId points to (include: { user: true })
UserById(id) == users[CHOOSE i \in DOMAIN users : users[i].id = id]

\* variant: `gt` in place of `gte`
MatchesUserAfter(a, userId, startOfDay) == a.userId = userId /\ a.date > startOfDay

\* where: { userId, date: { gte: startOfDay } }
MatchesUserSince(a, userId, startOfDay) == a.userId = userId /\ a.date >= startOfDay

\* prisma.attendance.findFirst({ where: { userId, date: { gte: startOfDay } } })
FindFirstAttendance(userId, startOfDay) ==
    LET hits == SelectSeq(attendance, LAMBDA a : MatchesUserSince(a, userId, startOfDay))
    IN IF hits = <<>> THEN NoAttendance ELSE Head(hits)

\* variant: findMany without the date filter
MatchesAlways(a, startOfDay) == TRUE

\* where: { date: { gte: startOfDay } }
MatchesSince(a, startOfDay) == a.date >= startOfDay

\* prisma.attendance.findMany({ where: { date: { gte: startOfDay } }, include: { user: true } })
FindManyAttendance(startOfDay) ==
    LET hits == SelectSeq(attendance, LAMBDA a : MatchesSince(a, startOfDay))
    IN [i \in DOMAIN hits |-> [id |-> hits[i].id, date |-> hits[i].date, user |-> UserById(hits[i].userId)]]

----------------------------------------------------------------------------
(* The store: table rows as the schema declares them *)

\* INSERT INTO "User": id autoincrement; nothing is ever deleted, so the
\* next id is the row count plus one
NewUser(b, hashedPin) ==
    [id |-> Len(users) + 1, name |-> b.name, email |-> b.email, phone |-> b.phone,
     department |-> b.department, pin |-> hashedPin]

\* variant: the schema without the unique index
NoUserEmailKey(email) == FALSE

\* CREATE UNIQUE INDEX "User_email_key": the insert is rejected when a row
\* with the email exists
UserEmailKeyViolated(email) == \E i \in DOMAIN users : users[i].email = email

\* INSERT INTO "Attendance": id autoincrement, date DEFAULT CURRENT_TIMESTAMP
NewAttendance(userId) == [id |-> Len(attendance) + 1, userId |-> userId, date |-> now]

TypeOK ==
    /\ now \in 0..MaxTime
    /\ pc \in [Slots -> {"idle", "register.findUnique", "register.create", "login.findUnique",
                         "login.compare", "login.findFirst", "login.create",
                         "export.findMany", "done"}]
    /\ kind \in [Slots -> {"", "register", "login", "export"}]
    /\ \A i \in DOMAIN users : users[i].id = i
    /\ \A i \in DOMAIN attendance : attendance[i].id = i /\ attendance[i].date <= now

Init ==
    /\ users = <<>>
    /\ attendance = <<>>
    /\ now = 0
    /\ pc = [r \in Slots |-> "idle"]
    /\ kind = [r \in Slots |-> ""]
    /\ body = [r \in Slots |-> NoBody]
    /\ local = [r \in Slots |-> NoLocal]
    /\ resp = [r \in Slots |-> NoResp]

\* the handler of slot r answers and returns; its locals go out of scope
Respond(r, response) ==
    /\ pc' = [pc EXCEPT ![r] = "done"]
    /\ resp' = [resp EXCEPT ![r] = response]
    /\ local' = [local EXCEPT ![r] = NoLocal]

\* the handler of slot r awaits the store call named by `at`, holding `frame`
Await(r, at, frame) ==
    /\ pc' = [pc EXCEPT ![r] = at]
    /\ resp' = resp
    /\ local' = [local EXCEPT ![r] = frame]

\* a request arrives in the free slot r
Arrive(r, k, b) ==
    /\ pc[r] = "idle"
    /\ kind' = [kind EXCEPT ![r] = k]
    /\ body' = [body EXCEPT ![r] = b]

----------------------------------------------------------------------------
(* POST /register *)

\* lines 22-30: destructure the body, validate, issue findUnique
RegisterStart(r, b) ==
    /\ Arrive(r, "register", b)
    /\ IF \E f \in RegisterFields : b[f] = Missing
       THEN Respond(r, Json(400, MsgFieldsRequired))
       ELSE Await(r, "register.findUnique", NoLocal)
    /\ UNCHANGED <<users, attendance, now>>

\* lines 30-39: findUnique answers; duplicate check; hash the pin; issue create
RegisterFindUnique(r) ==
    /\ pc[r] = "register.findUnique"
    /\ LET existing == FindUserByEmail(body[r].email)
       IN IF existing # NoUser
          THEN Respond(r, Json(400, MsgEmailTaken))
          ELSE Await(r, "register.create", [local[r] EXCEPT !.hashedPin = BcryptHash(body[r].pin)])
    /\ UNCHANGED <<users, attendance, now, kind, body>>

\* lines 39-52: the insert runs; the unique index may reject it, and the
\* rejection is thrown into the catch block
RegisterCreate(r) ==
    /\ pc[r] = "register.create"
    /\ IF UserEmailKeyViolated(body[r].email)
       THEN /\ Respond(r, Json(500, MsgRegisterFailed))
            /\ users' = users
       ELSE LET user == NewUser(body[r], local[r].hashedPin)
            IN /\ users' = Append(users, user)
               /\ Respond(r, [Json(200, MsgRegistered(body[r].name))
                                EXCEPT !.user = <<user.id, user.email>>])
    /\ UNCHANGED <<attendance, now, kind, body>>

----------------------------------------------------------------------------
(* POST /login *)

\* lines 58-66: destructure, validate, issue findUnique
LoginStart(r, b) ==
    /\ Arrive(r, "login", b)
    /\ IF b.email = Missing \/ b.pin = Missing
       THEN Respond(r, Json(400, MsgLoginRequired))
       ELSE Await(r, "login.findUnique", NoLocal)
    /\ UNCHANGED <<users, attendance, now>>

\* lines 66-73: findUnique answers; unknown email is 404; start bcrypt.compare
LoginFindUnique(r) ==
    /\ pc[r] = "login.findUnique"
    /\ LET user == FindUserByEmail(body[r].email)
       IN IF user = NoUser
          THEN Respond(r, Json(404, MsgNoAccount))
          ELSE Await(r, "login.compare", [local[r] EXCEPT !.user = user])
    /\ UNCHANGED <<users, attendance, now, kind, body>>

\* lines 73-84: compare answers; wrong pin is 401; read the clock, truncate
\* it to midnight, issue findFirst
LoginCompare(r) ==
    /\ pc[r] = "login.compare"
    /\ LET validPin == BcryptCompare(body[r].pin, local[r].user.pin)
       IN IF ~validPin
          THEN Respond(r, Json(401, MsgBadPin))
          ELSE Await(r, "login.findFirst", [local[r] EXCEPT !.startOfDay = StartOfDay(now)])
    /\ UNCHANGED <<users, attendance, now, kind, body>>

\* lines 82-90: findFirst answers; a record since midnight ends the request,
\* otherwise the insert is issued
LoginFindFirst(r) ==
    /\ pc[r] = "login.findFirst"
    /\ LET existingAttendance == FindFirstAttendance(local[r].user.id, local[r].startOfDay)
       IN IF existingAttendance # NoAttendance
          THEN Respond(r, Json(200, MsgAlreadyMarked))
          ELSE Await(r, "login.create", local[r])
    /\ UNCHANGED <<users, attendance, now, kind, body>>

\* variant: the write replaces the user's earlier records (delete, then create)
LoginCreateReplacing(r) ==
    /\ pc[r] = "login.create"
    /\ attendance' = Append(SelectSeq(attendance, LAMBDA a : a.userId # local[r].user.id),
                            NewAttendance(local[r].user.id))
    /\ Respond(r, Json(200, MsgMarked))
    /\ UNCHANGED <<users, now, kind, body>>

\* variant: the store enforces one record per user and day at the insert
\* (insert-or-ignore), and the handler answers by what the insert did
LoginCreateIfAbsent(r) ==
    /\ pc[r] = "login.create"
    /\ IF \E i \in DOMAIN attendance :
             /\ attendance[i].userId = local[r].user.id
             /\ attendance[i].date \div TicksPerDay = now \div TicksPerDay
       THEN /\ attendance' = attendance
            /\ Respond(r, Json(200, MsgAlreadyMarked))
       ELSE /\ attendance' = Append(attendance, NewAttendance(local[r].user.id))
            /\ Respond(r, Json(200, MsgMarked))
    /\ UNCHANGED <<users, now, kind, body>>

\* lines 90-92: the insert runs (no constraint can reject it) and the
\* request is answered
LoginCreate(r) ==
    /\ pc[r] = "login.create"
    /\ attendance' = Append(attendance, NewAttendance(local[r].user.id))
    /\ Respond(r, Json(200, MsgMarked))
    /\ UNCHANGED <<users, now, kind, body>>

----------------------------------------------------------------------------
(* GET /export-attendance *)

\* variant: sn: index (numbered from 0)
ExportRowFromZero(a, index) ==
    [sn |-> index, name |-> a.user.name, email |-> a.user.email, phone |-> a.user.phone,
     department |-> a.user.department, date |-> IsoDate(a.date), time |-> LocaleTime(a.date)]

\* lines 130-143: one flat row per record, numbered from 1
ExportRow(a, index) ==
    [sn |-> index + 1, name |-> a.user.name, email |-> a.user.email, phone |-> a.user.phone,
     department |-> a.user.department, date |-> IsoDate(a.date), time |-> LocaleTime(a.date)]

\* attendances.map((a, index) => ...): index runs from 0
ExportData(attendances) == [i \in DOMAIN attendances |-> ExportRow(attendances[i], i - 1)]

\* Object.keys(data[0]): the keys in the order the literal writes them
CsvFields == <<"sn", "name", "email", "phone", "department", "date", "time">>

\* json2csv writes strings in double quotes and numbers bare
CsvString(s) == "\"" \o s \o "\""

CsvHeader == [i \in DOMAIN CsvFields |-> CsvString(CsvFields[i])]

CsvLine(row) ==
    <<ToString(row.sn), CsvString(row.name), CsvString(row.email), CsvString(row.phone),
      CsvString(row.department), CsvString(row.date), CsvString(row.time)>>

\* parser.parse(data): the header line, then one line per row; a line is the
\* sequence of its cells (joined by "," in the file, lines by a newline)
CsvParse(data) == <<CsvHeader>> \o [i \in DOMAIN data |-> CsvLine(data[i])]

\* lines 163-169: the text line of one row
PdfLine(item, i) ==
    ToString(i + 1) \o ". " \o item.name \o " | " \o item.email \o " | " \o item.phone
        \o " | " \o item.department \o " | " \o item.date \o " " \o item.time

\* lines 157-171: the title, then one text line per row
PdfText(data) == <<"Daily Attendance Report">> \o [i \in DOMAIN data |-> PdfLine(data[i], i - 1)]

\* res.attachment(`attendance-${today.toISOString().split("T")[0]}.<ext>`);
\* `today` was moved to midnight by setHours
AttachmentName(startOfDay, ext) == "attendance-" \o IsoDate(startOfDay) \o "." \o ext

Attachment(type, name, lines) ==
    [NoResp EXCEPT !.status = 200, !.file = [type |-> type, name |-> name, lines |-> lines]]

\* lines 115-119: read the format, read the clock, truncate, issue findMany
ExportStart(r, format) ==
    /\ Arrive(r, "export", [format |-> format])
    /\ Await(r, "export.findMany", [NoLocal EXCEPT !.startOfDay = StartOfDay(now)])
    /\ UNCHANGED <<users, attendance, now>>

\* variant: any format other than pdf is served as csv
ExportAnswerCsvByDefault(attendances, format, startOfDay) ==
    IF Len(attendances) = 0
    THEN Json(404, MsgNoData)
    ELSE LET data == ExportData(attendances)
         IN IF format = "pdf"
            THEN Attachment("application/pdf", AttachmentName(startOfDay, "pdf"), PdfText(data))
            ELSE Attachment("text/csv", AttachmentName(startOfDay, "csv"), CsvParse(data))

\* variant: the format is validated before the query result is looked at
ExportAnswerFormatFirst(attendances, format, startOfDay) ==
    IF format \notin {"csv", "pdf"}
    THEN Json(400, MsgBadFormat)
    ELSE IF Len(attendances) = 0
    THEN Json(404, MsgNoData)
    ELSE LET data == ExportData(attendances)
         IN IF format = "csv"
            THEN Attachment("text/csv", AttachmentName(startOfDay, "csv"), CsvParse(data))
            ELSE Attachment("application/pdf", AttachmentName(startOfDay, "pdf"), PdfText(data))

\* lines 124-177: what the handler answers once findMany has returned
ExportAnswer(attendances, format, startOfDay) ==
    IF Len(attendances) = 0
    THEN Json(404, MsgNoData)
    ELSE LET data == ExportData(attendances)
         IN IF format = "csv"
            THEN Attachment("text/csv", AttachmentName(startOfDay, "csv"), CsvParse(data))
            ELSE IF format = "pdf"
            THEN Attachment("application/pdf", AttachmentName(startOfDay, "pdf"), PdfText(data))
            ELSE Json(400, MsgBadFormat)

\* lines 119-177: findMany answers; the rest of the handler is synchronous
ExportFindMany(r) ==
    /\ pc[r] = "export.findMany"
    /\ LET attendances == FindManyAttendance(local[r].startOfDay)
       IN Respond(r, ExportAnswer(attendances, body[r].format, local[r].startOfDay))
    /\ UNCHANGED <<users, attendance, now, kind, body>>

----------------------------------------------------------------------------
(* Environment *)

\* the server clock advances
Tick ==
    /\ now < MaxTime
    /\ now' = now + 1
    /\ UNCHANGED <<users, attendance, pc, kind, body, local, resp>>

\* the client has its answer; the slot is free for the next request
Collect(r) ==
    /\ pc[r] = "done"
    /\ pc' = [pc EXCEPT ![r] = "idle"]
    /\ kind' = [kind EXCEPT ![r] = ""]
    /\ body' = [body EXCEPT ![r] = NoBody]
    /\ resp' = [resp EXCEPT ![r] = NoResp]
    /\ UNCHANGED <<users, attendance, now, local>>

\* the logins that may still add a record
LoginsInFlight == Cardinality({q \in Slots : kind[q] = "login" /\ pc[q] # "done"})

\* a request arrives
Start(r) ==
    \/ \E b \in RegisterBodies : RegisterStart(r, b)
    \/ \E b \in LoginBodies :
          Len(attendance) + LoginsInFlight < MaxRecords /\ LoginStart(r, b)
    \/ \E format \in Formats : ExportStart(r, format)

\* a handler in flight takes its next step
Step(r) ==
    \/ RegisterFindUnique(r)
    \/ RegisterCreate(r)
    \/ LoginFindUnique(r)
    \/ LoginCompare(r)
    \/ LoginFindFirst(r)
    \/ LoginCreate(r)
    \/ ExportFindMany(r)

\* requests are handled concurrently: any interleaving at the awaits
Next ==
    \/ \E r \in Slots : Start(r)
    \/ \E r \in Slots : Step(r)
    \/ \E r \in Slots : Collect(r)
    \/ Tick

Spec == Init /\ [][Next]_vars

\* no request is between arrival and answer
Quiet == \A q \in Slots : pc[q] \in {"idle", "done"}

\* requests are handled one after another: a request arrives only when no
\* other is in flight
SeqNext ==
    \/ \E r \in Slots : Quiet /\ Start(r)
    \/ \E r \in Slots : Step(r)
    \/ \E r \in Slots : Collect(r)
    \/ Tick

SeqSpec == Init /\ [][SeqNext]_vars

----------------------------------------------------------------------------
(* Vocabulary of the properties *)

\* the calendar day an instant falls in
Day(t) == t \div TicksPerDay

\* local midnight of the day of t
Midnight(t) == t - (t % TicksPerDay)

\* the rows of a ledger that belong to user uid and fall in day d
RecordsOf(ledger, uid, d) ==
    {i \in DOMAIN ledger : ledger[i].userId = uid /\ Day(ledger[i].date) = d}

\* the rows of the ledger stamped at or after the instant t
RecordsSince(t) == {i \in DOMAIN attendance : attendance[i].date >= t}

\* the k-th row, in table order, of a set of row numbers
KthOf(rows, k) == CHOOSE i \in rows : Cardinality({j \in rows : j < i}) = k - 1

\* the user a ledger row belongs to
OwnerOf(i) == CHOOSE u \in {users[j] : j \in DOMAIN users} : u.id = attendance[i].userId

\* slot r took a step
Stepped(r) == pc'[r] # pc[r]

\* slot r holds an answered request of kind k
Answered(r, k) == pc[r] = "done" /\ kind[r] = k

\* the handler in slot r answers in this step, the store call `at` having returned
Answers(r, at) == pc[r] = at /\ pc'[r] = "done"

----------------------------------------------------------------------------
(* C1 *)

\* C1: in every reachable state, whatever the interleaving of requests, the
\* ledger holds at most one record per user and calendar day.
\* The handler's check (findFirst) and insert (create) are two store calls
\* with an await between them, so the property fails.
AtMostOneRecordPerUserPerDay ==
    \A i, j \in DOMAIN attendance :
        (attendance[i].userId = attendance[j].userId
            /\ Day(attendance[i].date) = Day(attendance[j].date)) => i = j

----------------------------------------------------------------------------
(* C2 *)

\* the user row with the email of the request in slot r
UserOf(r) == FindUserByEmail(body[r].email)

\* C2: when logins with the correct email and PIN are handled one after
\* another within one calendar day, a login that is answered leaves exactly
\* one record of the user for that day: if none existed it adds one and
\* answers "marked" (200); if one existed it adds nothing and answers
\* "already marked" (200).
SameDayLoginsMarkOnce ==
    [][\A r \in Slots :
         ((Answers(r, "login.findFirst") \/ Answers(r, "login.create"))
            /\ local[r].startOfDay = Midnight(now))
         => LET uid == local[r].user.id
                had == RecordsOf(attendance, uid, Day(now))
                has == RecordsOf(attendance', uid, Day(now))
            IN /\ Cardinality(has) = 1
               /\ resp'[r].status = 200
               /\ IF had = {}
                  THEN /\ resp'[r].message = MsgMarked
                       /\ Len(attendance') = Len(attendance) + 1
                  ELSE /\ resp'[r].message = MsgAlreadyMarked
                       /\ attendance' = attendance]_vars

\* two logins of one user on one day are answered, the first "marked", the
\* other "already marked", and the day holds one record of the user
SecondLoginAlreadyMarked ==
    \E r, q \in Slots :
        /\ r # q
        /\ Answered(r, "login") /\ Answered(q, "login")
        /\ body[r].email = body[q].email
        /\ resp[r].message = MsgMarked
        /\ resp[q].message = MsgAlreadyMarked
        /\ Cardinality(RecordsOf(attendance, UserOf(r).id, Day(now))) = 1

----------------------------------------------------------------------------
(* C3 *)

\* the stored users with the given email
UsersWithEmail(table, email) == {i \in DOMAIN table : table[i].email = email}

----------------------------------------------------------------------------
(* C4 *)

\* the login in slot r names a stored user and a PIN that is not that user's
WrongPin(r) ==
    /\ kind[r] = "login"
    /\ body[r].email # Missing /\ body[r].pin # Missing
    /\ UserOf(r) # NoUser
    /\ UserOf(r).pin # BcryptHash(body[r].pin)

\* C4: a login with the email of a stored user and a PIN that does not match
\* the stored digest never touches the ledger, never reaches the attendance
\* check, and is answered 401.
WrongPinNeverMarks ==
    [][\A r \in Slots :
         (Stepped(r) /\ pc[r] \in {"login.findUnique", "login.compare"} /\ WrongPin(r))
         => /\ attendance' = attendance
            /\ pc'[r] \in {"login.compare", "done"}
            /\ pc'[r] = "done" => resp'[r] = Json(401, MsgBadPin)]_vars

\* a wrong-PIN login was answered 401 while the ledger already held a record
\* of that user
WrongPinRefused ==
    \E r \in Slots :
        /\ Answered(r, "login") /\ WrongPin(r)
        /\ resp[r].status = 401
        /\ \E i \in DOMAIN attendance : attendance[i].userId = UserOf(r).id

----------------------------------------------------------------------------
(* C5 *)

\* C5: the ledger changes only by a login that passed the PIN check
\* appending one record of its user; every other step (register, export,
\* refused logins, the clock) leaves it as it is, so records are never
\* changed or removed.
LedgerOnlyGrowsByLogin ==
    [][\/ attendance' = attendance
       \/ \E r \in Slots :
            /\ kind[r] = "login"
            /\ Answers(r, "login.create")
            /\ UserOf(r) # NoUser
            /\ UserOf(r).pin = BcryptHash(body[r].pin)
            /\ resp'[r] = Json(200, MsgMarked)
            /\ Len(attendance') = Len(attendance) + 1
            /\ \A i \in DOMAIN attendance : attendance'[i] = attendance[i]
            /\ attendance'[Len(attendance')].userId = UserOf(r).id
            /\ attendance'[Len(attendance')].date = now]_vars

\* after a record was stored, a register, a refused login and an export
\* were answered and the record is still there
LedgerKeptAcrossOtherRequests ==
    /\ Len(attendance) = 2
    /\ attendance[1].date < attendance[2].date
    /\ \E r \in Slots : Answered(r, "login") /\ resp[r].status \in {400, 401, 404}
    /\ \E r \in Slots : \/ Answered(r, "export")
                        \/ Answered(r, "register")

----------------------------------------------------------------------------
(* C6 *)

\* C6: an export computes today's local midnight when it arrives, and when
\* its query finds the ledger without a record at or after that midnight it
\* is answered 404 "no attendance", whatever older records and users exist.
ExportWithoutTodayRecordsIsNoData ==
    [][\A r \in Slots :
         /\ (pc[r] = "idle" /\ pc'[r] = "export.findMany")
              => local'[r].startOfDay = Midnight(now)
         /\ (Answers(r, "export.findMany") /\ RecordsSince(local[r].startOfDay) = {})
              => resp'[r] = Json(404, MsgNoData)]_vars

\* a csv export was answered 404 on a day without records while the ledger
\* holds a record of an earlier day
NoDataDespiteOlderRecords ==
    \E r \in Slots :
        /\ Answered(r, "export") /\ body[r].format = "csv"
        /\ resp[r].status = 404
        /\ attendance # <<>>
        /\ RecordsSince(Midnight(now)) = {}

----------------------------------------------------------------------------
(* C7 *)

\* C7: an export whose format is neither "csv" nor "pdf" (omitted included)
\* and whose query finds a record of today is answered 400 "invalid format"
\* and carries no file.
UnknownFormatRejected ==
    [][\A r \in Slots :
         (Answers(r, "export.findMany")
            /\ body[r].format \notin {"csv", "pdf"}
            /\ RecordsSince(local[r].startOfDay) # {})
         => /\ resp'[r].status = 400
            /\ resp'[r].message = MsgBadFormat
            /\ resp'[r].file = NoFile]_vars

\* an export with format=xml and one without format were both answered 400
\* while records of today exist
UnknownFormatsRefused ==
    \E r, q \in Slots :
        /\ Answered(r, "export") /\ body[r].format = "xml" /\ resp[r].status = 400
        /\ Answered(q, "export") /\ body[q].format = Missing /\ resp[q].status = 400
        /\ RecordsSince(Midnight(now)) # {}

----------------------------------------------------------------------------
(* C8 *)

\* C8: a csv export whose query finds N >= 1 records of today is answered
\* with N + 1 lines: the header, then for k = 1..N the line of the k-th
\* record in table order, carrying sn = k and the name, email, phone and
\* department of the user owning that record.
CsvHasHeaderAndNumberedRows ==
    [][\A r \in Slots :
         (Answers(r, "export.findMany") /\ body[r].format = "csv"
            /\ RecordsSince(local[r].startOfDay) # {})
         => LET rows == RecordsSince(local[r].startOfDay)
                N == Cardinality(rows)
                lines == resp'[r].file.lines
            IN /\ resp'[r].status = 200
               /\ resp'[r].file.type = "text/csv"
               /\ Len(lines) = N + 1
               /\ lines[1] = <<"\"sn\"", "\"name\"", "\"email\"", "\"phone\"",
                               "\"department\"", "\"date\"", "\"time\"">>
               /\ \A k \in 1..N :
                    LET owner == OwnerOf(KthOf(rows, k))
                    IN /\ lines[k + 1][1] = ToString(k)
                       /\ lines[k + 1][2] = "\"" \o owner.name \o "\""
                       /\ lines[k + 1][3] = "\"" \o owner.email \o "\""
                       /\ lines[k + 1][4] = "\"" \o owner.phone \o "\""
                       /\ lines[k + 1][5] = "\"" \o owner.department \o "\""]_vars

\* a csv export was answered with three lines: the header, then the rows of
\* two users in the order of their records
CsvOfTwoUsers ==
    \E r \in Slots :
        /\ Answered(r, "export") /\ body[r].format = "csv"
        /\ Len(resp[r].file.lines) = 3
        /\ resp[r].file.lines[2][1] = "1" /\ resp[r].file.lines[2][2] = "\"Bob\""
        /\ resp[r].file.lines[3][1] = "2" /\ resp[r].file.lines[3][2] = "\"Ann\""

----------------------------------------------------------------------------
(* C9 *)

\* C9: a login that found no record at its check inserts one and answers
\* "marked" whatever was inserted since the check; so two logins of one user
\* that both check before either inserts both insert.
InsertIgnoresLaterRecords ==
    [][\A r \in Slots :
         (Stepped(r) /\ pc[r] = "login.create")
         => /\ Len(attendance') = Len(attendance) + 1
            /\ attendance'[Len(attendance')].userId = local[r].user.id
            /\ resp'[r] = Json(200, MsgMarked)]_vars

\* two logins of one user were both answered "marked" and the ledger holds
\* two records of that user on one day
DoubleMarked ==
    \E r, q \in Slots :
        /\ r # q
        /\ Answered(r, "login") /\ Answered(q, "login")
        /\ body[r] = body[q]
        /\ resp[r].message = MsgMarked /\ resp[q].message = MsgMarked
        /\ Cardinality(RecordsOf(attendance, UserOf(r).id, Day(now))) = 2

----------------------------------------------------------------------------
(* C10 *)

\* C10: the empty result is tested before the format: whatever the format,
\* an export whose query finds no record of today is answered 404, and an
\* export is answered 400 only when its query found a record of today.
EmptyCheckedBeforeFormat ==
    [][\A r \in Slots : \A f \in Formats :
         (Answers(r, "export.findMany") /\ body[r].format = f)
         => /\ RecordsSince(local[r].startOfDay) = {} => resp'[r].status = 404
            /\ resp'[r].status = 400
                 => /\ RecordsSince(local[r].startOfDay) # {}
                    /\ f \notin {"csv", "pdf"}]_vars

\* an export with format=xml and one without format were both answered 404
NoDataForUnknownFormats ==
    \E r, q \in Slots :
        /\ Answered(r, "export") /\ body[r].format = "xml" /\ resp[r].status = 404
        /\ Answered(q, "export") /\ body[q].format = Missing /\ resp[q].status = 404

====
